---------------------------- MODULE Spec2Model ----------------------------
(***************************************************************************)
(* A model of generator/genlib/model.py: the type graph of the binding     *)
(* generator (Model, the Type variants, Member) and the per-member         *)
(* decisions derived from it (conversion, swift_type, default value,       *)
(* length pairing, is_callback).                                           *)
(*                                                                         *)
(* Python values are represented as follows.                               *)
(*   - None is the string NoneV; a Member object is identified by its      *)
(*     position in its container's list (0 stands for None), so that       *)
(*     "is" on members is equality of positions;                           *)
(*   - a Type object is identified by its key in the registry (the dict    *)
(*     Model.types), a resolved reference is that key;                     *)
(*   - a JSON literal is a record [k, n, s]: kind, number, text;           *)
(*   - str is a TLA+ string, handled with Len, SubSeq and \o.              *)
(***************************************************************************)
EXTENDS Integers, Sequences, FiniteSets, TLC

VARIABLES
    container,     \* the StructureType / FunctionPointerType under construction
    cpc,           \* where its construction stands: "new", "constructed", "linked", "failed"
    data,          \* Model.__init__: the raw schema, a sequence of <<name, type_data>>
    enabled_tags,  \* Model.__init__: the enabled tags, or None
    types,         \* Model.types, as a function from the keys present to nodes
    order,         \* the insertion order of Model.types
    pc,            \* Model.__init__: "build", "link", "done", "failed", or "idle"
    idx            \* Model.__init__: the position of the running loop

vars == <<container, cpc, data, enabled_tags, types, order, pc, idx>>

-----------------------------------------------------------------------------
(* Python values *)

NoneV == "<None>"

NoLit == [k |-> "none", n |-> 0, s |-> ""]
IntLit(v) == [k |-> "int", n |-> v, s |-> ""]
BoolLit(b) == [k |-> "bool", n |-> (IF b THEN 1 ELSE 0), s |-> ""]
StrLit(t) == [k |-> "str", n |-> 0, s |-> t]

\* bool(value)
Truthy(v) ==
    CASE v.k = "none" -> FALSE
      [] v.k = "int"  -> v.n # 0
      [] v.k = "bool" -> v.n = 1
      [] OTHER        -> v.s # ""

\* value == 0 (False == 0 holds in Python)
EqZero(v) == v.k \in {"int", "bool"} /\ v.n = 0

\* value == '0'
EqStrZero(v) == v.k = "str" /\ v.s = "0"

Digits == <<"0", "1", "2", "3", "4", "5", "6", "7", "8", "9">>

RECURSIVE NatStr(_)
NatStr(n) == IF n < 10 THEN Digits[n + 1] ELSE NatStr(n \div 10) \o Digits[(n % 10) + 1]

\* str(value)
PyStr(v) ==
    CASE v.k = "none" -> "None"
      [] v.k = "int"  -> IF v.n < 0 THEN "-" \o NatStr(-v.n) ELSE NatStr(v.n)
      [] v.k = "bool" -> IF v.n = 1 THEN "True" ELSE "False"
      [] OTHER        -> v.s

-----------------------------------------------------------------------------
(* str methods *)

StartsWith(s, p) == Len(s) >= Len(p) /\ SubSeq(s, 1, Len(p)) = p

EndsWith(s, p) == Len(s) >= Len(p) /\ SubSeq(s, Len(s) - Len(p) + 1, Len(s)) = p

Contains(s, p) == \E i \in 1..(Len(s) - Len(p) + 1) : SubSeq(s, i, i + Len(p) - 1) = p

CharAt(s, i) == SubSeq(s, i, i)

RECURSIVE RStrip(_, _)
RStrip(s, chars) ==
    IF Len(s) > 0 /\ CharAt(s, Len(s)) \in chars
    THEN RStrip(SubSeq(s, 1, Len(s) - 1), chars)
    ELSE s

RECURSIVE LStrip(_, _)
LStrip(s, chars) ==
    IF Len(s) > 0 /\ CharAt(s, 1) \in chars
    THEN LStrip(SubSeq(s, 2, Len(s)), chars)
    ELSE s

Strip(s, chars) == LStrip(RStrip(s, chars), chars)

Whitespace == {" "}

RECURSIVE SplitFrom(_, _, _)
SplitFrom(s, sep, acc) ==
    IF Len(s) = 0 THEN <<acc>>
    ELSE IF CharAt(s, 1) = sep
         THEN <<acc>> \o SplitFrom(SubSeq(s, 2, Len(s)), sep, "")
         ELSE SplitFrom(SubSeq(s, 2, Len(s)), sep, acc \o CharAt(s, 1))

\* s.split(sep), sep one character
Split(s, sep) == SplitFrom(s, sep, "")

RECURSIVE Join(_, _)
Join(parts, sep) ==
    IF Len(parts) = 0 THEN ""
    ELSE IF Len(parts) = 1 THEN parts[1]
    ELSE parts[1] \o sep \o Join(Tail(parts), sep)

UpperChars == "ABCDEFGHIJKLMNOPQRSTUVWXYZ"
LowerChars == "abcdefghijklmnopqrstuvwxyz"

LowerChar(c) ==
    IF \E i \in 1..Len(UpperChars) : CharAt(UpperChars, i) = c
    THEN CharAt(LowerChars, CHOOSE i \in 1..Len(UpperChars) : CharAt(UpperChars, i) = c)
    ELSE c

UpperChar(c) ==
    IF \E i \in 1..Len(LowerChars) : CharAt(LowerChars, i) = c
    THEN CharAt(UpperChars, CHOOSE i \in 1..Len(LowerChars) : CharAt(LowerChars, i) = c)
    ELSE c

RECURSIVE Lower(_)
Lower(s) == IF Len(s) = 0 THEN "" ELSE LowerChar(CharAt(s, 1)) \o Lower(SubSeq(s, 2, Len(s)))

IsDigit(c) == \E i \in 1..Len(Digits) : Digits[i] = c

-----------------------------------------------------------------------------
(* nameutils: the identifier-casing helpers the model imports *)

CapWord(w) == IF Len(w) = 0 THEN "" ELSE UpperChar(CharAt(w, 1)) \o SubSeq(w, 2, Len(w))

RECURSIVE CapWords(_)
CapWords(ws) == IF Len(ws) = 0 THEN "" ELSE CapWord(ws[1]) \o CapWords(Tail(ws))

pascal_case(s) == CapWords(Split(s, " "))

camel_case(s) ==
    LET ws == Split(s, " ")
    IN  Lower(ws[1]) \o CapWords(Tail(ws))

SwiftKeywords == {"default", "repeat", "internal", "false", "true", "type"}

\* a reserved word is escaped by quoting it; the quote mark is written ' here
swift_safe(s) == IF s \in SwiftKeywords THEN "'" \o s \o "'" ELSE s

-----------------------------------------------------------------------------
(* Tag filter *)

\* bool(x) of an optional str: None and '' are false
TruthyStr(x) == x # NoneV /\ x # ""

\* _is_enabled(data, enabled_tags); data.tags is the set of the declared tags
\* enabled_tags: None, or the list given
NoTags == [given |-> FALSE, tags |-> {}]

TagList(S) == [given |-> TRUE, tags |-> S]

\* _is_enabled with any() for all(): one enabled tag is enough
_is_enabled_any(d, enabled) ==
    IF d.tags = {} \/ ~enabled.given
    THEN TRUE
    ELSE \E tag \in d.tags : tag \in enabled.tags

_is_enabled(d, enabled) ==
    IF d.tags = {} \/ ~enabled.given
    THEN TRUE
    ELSE \A tag \in d.tags : tag \in enabled.tags

_is_member_enabled(d) == ~(d.tags # {} /\ "upstream" \in d.tags)

-----------------------------------------------------------------------------
(* Member.__init__ and the pairing pass of the two containers *)

MemberInit(d) == [data |-> d, type |-> NoneV, length_member |-> 0, length_of |-> 0]

RECURSIVE EnabledMembers(_)
EnabledMembers(ds) ==
    IF Len(ds) = 0 THEN <<>>
    ELSE (IF _is_member_enabled(ds[1]) THEN <<MemberInit(ds[1])>> ELSE <<>>)
         \o EnabledMembers(Tail(ds))

\* the dict of names built first-write-wins
ByNameGet_first(ms, key) ==
    LET hits == {i \in 1..Len(ms) : ms[i].data.name = key}
    IN  IF key = NoneV \/ hits = {} THEN 0
        ELSE CHOOSE i \in hits : \A j \in hits : i <= j

\* {member.name: member for member in members}.get(key): the last member so named
ByNameGet(ms, key) ==
    LET hits == {i \in 1..Len(ms) : ms[i].data.name = key}
    IN  IF key = NoneV \/ hits = {} THEN 0
        ELSE CHOOSE i \in hits : \A j \in hits : j <= i

\* the dict of lengths built first-write-wins
ByLengthGet_first(ms, key) ==
    LET hits == {i \in 1..Len(ms) : TruthyStr(ms[i].data.length) /\ ms[i].data.length = key}
    IN  IF hits = {} THEN 0
        ELSE CHOOSE i \in hits : \A j \in hits : i <= j

\* {member.length: member for member in members if member.length}.get(key)
ByLengthGet(ms, key) ==
    LET hits == {i \in 1..Len(ms) : TruthyStr(ms[i].data.length) /\ ms[i].data.length = key}
    IN  IF hits = {} THEN 0
        ELSE CHOOSE i \in hits : \A j \in hits : j <= i

PairMembers(ms) ==
    [i \in 1..Len(ms) |->
        [ms[i] EXCEPT !.length_member = ByNameGet(ms, ms[i].data.length),
                      !.length_of = ByLengthGet(ms, ms[i].data.name)]]

-----------------------------------------------------------------------------
(* The Type variants: constructors *)

EmptyNode(cls, name, d) ==
    [cls |-> cls, name |-> name, data |-> d, category |-> d.category, tags |-> d.tags,
     values |-> <<>>, requires_prefix |-> FALSE,
     members |-> <<>>, args |-> <<>>, returns |-> NoneV, return_type |-> NoneV,
     type_ref |-> NoneV, type |-> NoneV, methods |-> <<>>, object_name |-> NoneV]

NativeTypeInit(name, d) == EmptyNode("NativeType", name, d)

RECURSIVE EnabledItems(_, _)
EnabledItems(ds, enabled) ==
    IF Len(ds) = 0 THEN <<>>
    ELSE (IF _is_enabled(ds[1], enabled) THEN <<ds[1]>> ELSE <<>>)
         \o EnabledItems(Tail(ds), enabled)

EnumTypeInit(cls, name, d, enabled) ==
    LET values == EnabledItems(d.values, enabled)
        prefix == \E i \in 1..Len(values) : IsDigit(CharAt(values[i].name, 1))
    IN  [EmptyNode(cls, name, d) EXCEPT
            !.requires_prefix = prefix,
            !.values = [i \in 1..Len(values) |->
                           [name |-> values[i].name, value |-> values[i].value,
                            requires_prefix |-> prefix]]]

StructureTypeInit(name, d) ==
    [EmptyNode("StructureType", name, d) EXCEPT
        !.members = PairMembers(EnabledMembers(d.members))]

FunctionPointerTypeInit(cls, name, d) ==
    [EmptyNode(cls, name, d) EXCEPT
        !.args = PairMembers(EnabledMembers(d.args)),
        !.returns = d.returns]

MethodTypeInit(object_name, d) ==
    [FunctionPointerTypeInit("MethodType", d.name, d) EXCEPT !.object_name = object_name]

ObjectTypeInit(name, d, enabled) ==
    LET ms == EnabledItems(d.methods, enabled)
    IN  [EmptyNode("ObjectType", name, d) EXCEPT
            !.methods = [i \in 1..Len(ms) |-> MethodTypeInit(name, ms[i])]]

TypedefTypeInit(name, d) ==
    [EmptyNode("TypedefType", name, d) EXCEPT !.type_ref = d.type]

\* the keys of category_types
KnownCategories ==
    {"native", "enum", "bitmask", "structure", "function pointer", "function",
     "object", "typedef"}

\* category_types[category](name, type_data)
Construct(name, d, enabled) ==
    CASE d.category = "native"           -> NativeTypeInit(name, d)
      [] d.category = "enum"             -> EnumTypeInit("EnumType", name, d, enabled)
      [] d.category = "bitmask"          -> EnumTypeInit("BitmaskType", name, d, enabled)
      [] d.category = "structure"        -> StructureTypeInit(name, d)
      [] d.category = "function pointer" -> FunctionPointerTypeInit("FunctionPointerType", name, d)
      [] d.category = "function"         -> FunctionPointerTypeInit("FunctionType", name, d)
      [] d.category = "object"           -> ObjectTypeInit(name, d, enabled)
      [] d.category = "typedef"          -> TypedefTypeInit(name, d)

\* isinstance(t, FunctionPointerType)
IsFunctionPointerType(t) == t.cls \in {"FunctionPointerType", "FunctionType", "MethodType"}

\* isinstance(t, StructureType)
IsStructureType(t) == t.cls = "StructureType"

-----------------------------------------------------------------------------
(* Linking: link(types) of each variant.  A lookup types[key] of a key that *)
(* is absent raises KeyError; LinkFails says whether link raises, Link is   *)
(* the node after a link that does not.                                     *)

Has(reg, key) == key \in DOMAIN reg

\* Member.link
MemberLink(reg, m) == [m EXCEPT !.type = m.data.type]

MembersRaise(reg, ms) == \E i \in 1..Len(ms) : ~Has(reg, ms[i].data.type)

LinkMembers(reg, ms) == [i \in 1..Len(ms) |-> MemberLink(reg, ms[i])]

\* FunctionPointerType.link: the return type first, then the arguments
ReturnsStored(t) == TruthyStr(t.returns) /\ t.returns # "void"

\* link that resolves the arguments and never looks the return type up
FunctionLinkFails_args_only(reg, t) == MembersRaise(reg, t.args)

FunctionLinkFails(reg, t) ==
    \/ ReturnsStored(t) /\ ~Has(reg, t.returns)
    \/ MembersRaise(reg, t.args)

FunctionLink(reg, t) ==
    [t EXCEPT !.return_type = IF ReturnsStored(t) THEN t.returns ELSE NoneV,
              !.args = LinkMembers(reg, t.args)]

LinkFails(reg, t) ==
    CASE t.cls = "StructureType"    -> MembersRaise(reg, t.members)
      [] IsFunctionPointerType(t)   -> FunctionLinkFails(reg, t)
      [] t.cls = "ObjectType"       ->
            \E i \in 1..Len(t.methods) : FunctionLinkFails(reg, t.methods[i])
      [] t.cls = "TypedefType"      -> ~Has(reg, t.type_ref)
      [] OTHER                      -> FALSE

Link(reg, t) ==
    CASE t.cls = "StructureType"    -> [t EXCEPT !.members = LinkMembers(reg, t.members)]
      [] IsFunctionPointerType(t)   -> FunctionLink(reg, t)
      [] t.cls = "ObjectType"       ->
            [t EXCEPT !.methods = [i \in 1..Len(t.methods) |-> FunctionLink(reg, t.methods[i])]]
      [] t.cls = "TypedefType"      -> [t EXCEPT !.type = t.type_ref]
      [] OTHER                      -> t

-----------------------------------------------------------------------------
(* The Type variants: derived names *)

NativeNames ==
    [void |-> "Void", char |-> "CChar", float |-> "Float", double |-> "Double",
     uint8_t |-> "UInt8", uint16_t |-> "UInt16", uint32_t |-> "UInt32",
     uint64_t |-> "UInt64", int32_t |-> "Int32", int64_t |-> "Int64",
     size_t |-> "Int", int |-> "Int32", bool |-> "Bool"]
    @@ ("void *" :> "UnsafeMutableRawPointer!")
    @@ ("void const *" :> "UnsafeRawPointer!")

type_c_name(t) ==
    CASE t.cls = "NativeType"   -> NativeNames[t.name]
      [] t.cls = "BitmaskType"  -> "WGPU" \o pascal_case(t.name) \o "Flags"
      [] t.cls = "FunctionType" -> "WGPUProc" \o pascal_case(t.name)
      [] t.cls = "MethodType"   ->
            "WGPUProc" \o pascal_case(t.object_name) \o pascal_case(t.name)
      [] OTHER                  -> "WGPU" \o pascal_case(t.name)

type_swift_name(t) ==
    IF t.cls = "NativeType" THEN type_c_name(t) ELSE pascal_case(Lower(t.name))

\* is_callback as "exactly one argument named userdata"
is_callback_exactly_one(t) ==
    Cardinality({i \in 1..Len(t.args) : t.args[i].data.name = "userdata"}) = 1

\* FunctionPointerType.is_callback
is_callback(t) == \E i \in 1..Len(t.args) : t.args[i].data.name = "userdata"

callback_function_name(t) == camel_case(Lower(t.name))

\* FunctionPointerType.swift_args
swift_args(t) ==
    {i \in 1..Len(t.args) : t.args[i].length_of = 0 /\ t.args[i].data.name # "userdata"}

\* swift_members as "the members that are not arrays"
swift_members_non_arrays(t) ==
    {i \in 1..Len(t.members) :
        ~(t.members[i].data.annotation = "const*" /\ TruthyStr(t.members[i].data.length))}

\* StructureType.swift_members, as the set of the positions kept
swift_members(t) == {i \in 1..Len(t.members) : t.members[i].length_of = 0}

\* Member.swift_name
member_swift_name(m) ==
    IF Contains(m.data.name, " ")
    THEN swift_safe(camel_case(Lower(m.data.name)))
    ELSE swift_safe(m.data.name)

-----------------------------------------------------------------------------
(* Member: the native and the target type signature.  ms is the list the   *)
(* member lives in, i its position, reg the registry it was linked against *)

MType(reg, ms, i) == reg[ms[i].type]

c_type(reg, ms, i) ==
    LET m == ms[i]
        t == MType(reg, ms, i)
    IN  IF m.data.annotation = "const*"
        THEN IF t.name = "void" THEN "UnsafeRawPointer!"
             ELSE IF t.category = "object"
                  THEN "UnsafePointer<" \o type_c_name(t) \o "?>!"
                  ELSE "UnsafePointer<" \o type_c_name(t) \o ">!"
        ELSE IF m.data.annotation = "*"
        THEN IF t.name = "void" THEN "UnsafeMutableRawPointer!"
             ELSE "UnsafeMutablePointer<" \o type_c_name(t) \o ">!"
        ELSE IF t.category = "object" THEN type_c_name(t) \o "!"
        ELSE type_c_name(t)

\* the branch of swift_type that picks the signature: "fallback" returns c_type
swift_type_branch(reg, ms, i) ==
    LET m == ms[i]
        t == MType(reg, ms, i)
    IN  IF t.name = "char" /\ m.data.annotation = "const*" THEN "string"
        ELSE IF m.data.annotation = "const*" /\ TruthyStr(m.data.length) THEN "array"
        ELSE IF \/ ~TruthyStr(m.data.annotation)
                \/ (m.data.annotation = "const*" /\ t.category = "structure")
        THEN "name"
        ELSE "fallback"

\* the signature the first three branches assign to swift_type
swift_type_chosen(reg, ms, i) ==
    LET t == MType(reg, ms, i)
        branch == swift_type_branch(reg, ms, i)
    IN  CASE branch = "string" -> "String"
          [] branch = "array"  ->
                IF t.name = "void" THEN "UnsafeRawBufferPointer"
                ELSE "[" \o type_swift_name(t) \o "]"
          [] OTHER             -> type_swift_name(t)

\* swift_type that puts the marks on the fallback signature too
swift_type_marks_fallback(reg, ms, i) ==
    LET m == ms[i]
        t == MType(reg, ms, i)
        chosen == IF swift_type_branch(reg, ms, i) = "fallback" THEN c_type(reg, ms, i)
                  ELSE swift_type_chosen(reg, ms, i)
        escaping == IF t.category = "function pointer" THEN "@escaping " \o chosen ELSE chosen
    IN  IF m.data.optional THEN escaping \o "?" ELSE escaping

swift_type(reg, ms, i) ==
    LET m == ms[i]
        t == MType(reg, ms, i)
        chosen == swift_type_chosen(reg, ms, i)
        escaping == IF t.category = "function pointer" THEN "@escaping " \o chosen ELSE chosen
    IN  IF swift_type_branch(reg, ms, i) = "fallback" THEN c_type(reg, ms, i)
        ELSE IF m.data.optional THEN escaping \o "?" ELSE escaping

-----------------------------------------------------------------------------
(* Member.conversion: the name of the typeconversion strategy *)

\* the member is the length of another: lines 220-222
length_conversion(of) ==
    IF of.name = "void" THEN "buffer_length_conversion" ELSE "array_length_conversion"

\* array_conversion without the test for the raw-byte element
array_conversion_no_void(t) ==
    IF t.category = "enum" THEN "enum_array_conversion"
    ELSE IF t.category = "structure" THEN "struct_array_conversion"
    ELSE IF t.category = "object" THEN "object_array_conversion"
    ELSE "implicit_array_conversion"

\* annotation 'const*' with a length: lines 232-244
array_conversion(t) ==
    IF t.name = "void" THEN "buffer_conversion"
    ELSE IF t.category = "enum" THEN "enum_array_conversion"
    ELSE IF t.category = "structure" THEN "struct_array_conversion"
    ELSE IF t.category = "object" THEN "object_array_conversion"
    ELSE "implicit_array_conversion"

\* const_pointer_conversion with the optional-struct test before the array test
const_pointer_conversion_optional_first(m, t) ==
    IF t.category = "structure" /\ m.data.optional THEN "optional_struct_conversion"
    ELSE IF TruthyStr(m.data.length) THEN array_conversion(t)
    ELSE IF t.category = "structure" THEN "struct_pointer_conversion"
    ELSE "implicit_conversion"

\* annotation 'const*': the array test comes first, lines 231-252
const_pointer_conversion(m, t) ==
    IF TruthyStr(m.data.length) THEN array_conversion(t)
    ELSE IF t.category = "structure"
         THEN IF m.data.optional THEN "optional_struct_conversion"
              ELSE "struct_pointer_conversion"
         ELSE "implicit_conversion"

\* no pointer annotation matched: lines 257-272
value_conversion(m, t) ==
    IF t.category = "enum" THEN "enum_conversion"
    ELSE IF t.category = "bitmask" THEN "bitmask_conversion"
    ELSE IF t.category = "structure" THEN "struct_conversion"
    ELSE IF t.category = "object"
    THEN IF m.data.optional THEN "optional_object_conversion" ELSE "object_conversion"
    ELSE IF IsFunctionPointerType(t) /\ is_callback(t)
    THEN "Conversion(" \o callback_function_name(t) \o ")"
    ELSE "implicit_conversion"

conversion(reg, ms, i) ==
    LET m == ms[i]
        t == MType(reg, ms, i)
    IN  IF m.length_of # 0 THEN length_conversion(MType(reg, ms, m.length_of))
        ELSE IF m.data.name = "userdata" THEN "userdata_conversion"
        ELSE IF t.name = "char" /\ m.data.annotation = "const*"
        THEN IF m.data.optional THEN "optional_string_conversion" ELSE "string_conversion"
        ELSE IF m.data.annotation = "const*" THEN const_pointer_conversion(m, t)
        ELSE IF m.data.annotation = "*" THEN "implicit_conversion"
        ELSE value_conversion(m, t)

-----------------------------------------------------------------------------
(* get_swift_value of each variant, and Member.default_swift_value with    *)
(* StructureType.has_default_swift_initializer                             *)

NativeGetSwiftValue(t, value) ==
    IF value.k = "str" /\ StartsWith(value.s, "WGPU_")
    THEN type_swift_name(t) \o "(" \o value.s \o ")"
    ELSE IF value.k = "str" /\ value.s = "NAN" THEN ".nan"
    ELSE IF t.name = "float" /\ value.k = "str" THEN RStrip(value.s, {"f"})
    ELSE PyStr(value)

\* value is a str here: 'type ' + value raises for anything else
EnumGetSwiftValue(t, value) ==
    LET name == IF t.requires_prefix THEN "type " \o value.s ELSE value.s
    IN  "." \o camel_case(Lower(name))

RECURSIVE get_swift_value(_, _, _)
get_swift_value(reg, tname, value) ==
    LET t == reg[tname]
    IN  CASE t.cls = "NativeType" -> NativeGetSwiftValue(t, value)
          [] t.cls \in {"EnumType", "BitmaskType"} -> EnumGetSwiftValue(t, value)
          [] t.cls = "StructureType" ->
                LET values == Split(Strip(value.s, {"{", "}"}), ",")
                    n == IF Len(values) < Len(t.members) THEN Len(values) ELSE Len(t.members)
                    args == [j \in 1..n |->
                                member_swift_name(t.members[j]) \o ": " \o
                                get_swift_value(reg, t.members[j].type,
                                                StrLit(Strip(values[j], Whitespace)))]
                IN  ".init(" \o Join(args, ", ") \o ")"
          [] OTHER -> PyStr(value)

RECURSIVE default_swift_value(_, _, _)
RECURSIVE has_default_swift_initializer(_, _)

default_swift_value(reg, ms, i) ==
    LET m == ms[i]
        t == MType(reg, ms, i)
    IN  IF m.data.optional THEN "nil"
        ELSE IF /\ m.length_member # 0
                /\ (EqZero(ms[m.length_member].data.default)
                    \/ EqStrZero(ms[m.length_member].data.default))
        THEN "[]"
        ELSE IF Truthy(m.data.default) THEN get_swift_value(reg, m.type, m.data.default)
        ELSE IF /\ IsStructureType(t)
                /\ ~TruthyStr(m.data.annotation)
                /\ has_default_swift_initializer(reg, t)
        THEN type_swift_name(t) \o "()"
        ELSE NoneV

\* all(member.default_swift_value for member in self.swift_members)
has_default_swift_initializer(reg, t) ==
    \A i \in swift_members(t) : TruthyStr(default_swift_value(reg, t.members, i))

-----------------------------------------------------------------------------
(* The raw schema: the attribute mappings the code reads *)

\* a type's attribute mapping, with what data.get() gives for a missing key
TD(category) ==
    [category |-> category, tags |-> {}, values |-> <<>>, members |-> <<>>,
     args |-> <<>>, returns |-> NoneV, type |-> NoneV, methods |-> <<>>, name |-> NoneV]

\* a member's or an argument's attribute mapping
MD(name, type) ==
    [name |-> name, type |-> type, annotation |-> NoneV, length |-> NoneV,
     default |-> NoLit, optional |-> FALSE, tags |-> {}]

EV(name, value) == [name |-> name, value |-> value, tags |-> {}]

\* The schema the containers under study are linked against.
BaseData ==
    ("void" :> TD("native")) @@ ("void *" :> TD("native")) @@ ("char" :> TD("native"))
    @@ ("uint32_t" :> TD("native")) @@ ("float" :> TD("native")) @@ ("bool" :> TD("native"))
    @@ ("texture format" :>
            [TD("enum") EXCEPT !.values = <<EV("undefined", 0), EV("r8 unorm", 1)>>])
    @@ ("texture dimension" :>
            [TD("enum") EXCEPT !.values = <<EV("1D", 0), EV("2D", 1)>>])
    @@ ("buffer usage" :>
            [TD("bitmask") EXCEPT !.values = <<EV("none", 0), EV("map read", 1)>>])
    @@ ("origin 3D" :>
            [TD("structure") EXCEPT !.members =
                <<[MD("x", "uint32_t") EXCEPT !.default = StrLit("0")],
                  [MD("y", "float") EXCEPT !.default = StrLit("1.0f")]>>])
    @@ ("extent 3D" :>
            [TD("structure") EXCEPT !.members =
                <<MD("width", "uint32_t"),
                  [MD("height", "uint32_t") EXCEPT !.default = IntLit(1)]>>])
    @@ ("view" :>
            [TD("structure") EXCEPT !.members =
                <<MD("origin", "origin 3D"),
                  [MD("format", "texture format") EXCEPT !.default = StrLit("undefined")],
                  [MD("label", "char") EXCEPT !.annotation = "const*", !.optional = TRUE]>>])
    @@ ("device" :>
            [TD("object") EXCEPT !.methods =
                <<[TD("method") EXCEPT !.name = "get limits", !.returns = "bool",
                                        !.args = <<MD("limits", "extent 3D")>>]>>])
    @@ ("error callback" :>
            [TD("function pointer") EXCEPT !.args =
                <<[MD("message", "char") EXCEPT !.annotation = "const*"],
                  MD("userdata", "void *")>>])
    @@ ("proc" :> TD("function pointer"))
    @@ ("get proc address" :>
            [TD("function") EXCEPT !.returns = "proc",
                                   !.args = <<MD("device", "device")>>])
    @@ ("flags" :> [TD("typedef") EXCEPT !.type = "uint32_t"])

BaseNodes == [n \in DOMAIN BaseData |-> Construct(n, BaseData[n], NoTags)]

\* Model(BaseData).types: every entry is kept, then linked against the whole dict
Registry == [n \in DOMAIN BaseNodes |-> Link(BaseNodes, BaseNodes[n])]

-----------------------------------------------------------------------------
(* Constructing and linking one container: StructureType(name, data), or   *)
(* FunctionPointerType / FunctionType / MethodType, then link(types)       *)

FunctionClasses == {"FunctionPointerType", "FunctionType", "MethodType"}

CategoryOfClass(cls) ==
    CASE cls = "FunctionPointerType" -> "function pointer"
      [] cls = "FunctionType"        -> "function"
      [] OTHER                       -> "method"

NoContainer == [EmptyNode("none", NoneV, TD("none")) EXCEPT !.members = <<>>]

BuildIdle ==
    /\ data = <<>>
    /\ enabled_tags = NoTags
    /\ types = [n \in {} |-> NoneV]
    /\ order = <<>>
    /\ pc = "idle"
    /\ idx = 0

BuildVars == <<data, enabled_tags, types, order, pc, idx>>

ContainerInit ==
    /\ container = NoContainer
    /\ cpc = "new"
    /\ BuildIdle

\* StructureType.__init__ on a members list drawn from inputs
StructureInit(inputs) ==
    /\ cpc = "new"
    /\ \E ds \in inputs :
          container' = StructureTypeInit("subject", [TD("structure") EXCEPT !.members = ds])
    /\ cpc' = "constructed"
    /\ UNCHANGED BuildVars

\* FunctionPointerType.__init__ (and its subclasses) on an args list drawn from inputs
FunctionPointerInit(inputs) ==
    /\ cpc = "new"
    /\ \E ds \in inputs, cls \in FunctionClasses :
          container' =
             IF cls = "MethodType"
             THEN MethodTypeInit("device",
                     [TD("method") EXCEPT !.name = "subject", !.args = ds])
             ELSE FunctionPointerTypeInit(cls, "subject",
                     [TD(CategoryOfClass(cls)) EXCEPT !.args = ds])
    /\ cpc' = "constructed"
    /\ UNCHANGED BuildVars

\* container.link(types) against the registry; a KeyError leaves it unlinked
ContainerLink ==
    /\ cpc = "constructed"
    /\ IF LinkFails(Registry, container)
       THEN cpc' = "failed" /\ UNCHANGED container
       ELSE cpc' = "linked" /\ container' = Link(Registry, container)
    /\ UNCHANGED BuildVars

\* the members or the arguments of the container
Fields(t) == IF IsStructureType(t) THEN t.members ELSE t.args

Linked == cpc = "linked"

-----------------------------------------------------------------------------
(* Length pairing and is_callback: containers whose members vary in name,  *)
(* length name and tags                                                    *)

MaxPairMembers == 3

SeqsUpTo(S, n) == UNION {[1..k -> S] : k \in 0..n}

PairNames == {"count", "items", "userdata"}

PairLengths == {NoneV, "count", "strlen"}

PairMemberData ==
    {[MD(n, "uint32_t") EXCEPT !.length = l, !.tags = tg] :
        n \in PairNames, l \in PairLengths, tg \in {{}, {"upstream"}}}

PairInputs == SeqsUpTo(PairMemberData, MaxPairMembers)

PairStructureInit == StructureInit(PairInputs)

PairFunctionPointerInit == FunctionPointerInit(PairInputs)

NextPair == PairStructureInit \/ PairFunctionPointerInit \/ ContainerLink

SpecPair == ContainerInit /\ [][NextPair]_vars

Built == cpc \in {"constructed", "linked"}

\* the positions of the container's members
Pos == 1..Len(Fields(container))

FName(i) == Fields(container)[i].data.name

FLength(i) == Fields(container)[i].data.length

LastNamed(i) == \A j \in Pos : FName(j) = FName(i) => j <= i

LastWithLength(i) == \A j \in Pos : FLength(j) = FLength(i) => j <= i

\* C4 as claimed: in every constructed container, for any members A and B with
\* A.length == B.name, B.length_of is A and A.length_member is B.
C4_AsClaimed ==
    Built =>
        \A a \in Pos, b \in Pos :
            FLength(a) = FName(b) =>
                /\ Fields(container)[b].length_of = a
                /\ Fields(container)[a].length_member = b

\* C4 amended: the pairing is last-write-wins on both dicts.  If A.length ==
\* B.name, A is the last member declaring that length name and B is the last
\* member carrying that name, then B.length_of is A and A.length_member is B.
C4_PairingOfLast ==
    Built =>
        \A a \in Pos, b \in Pos :
            (FLength(a) = FName(b) /\ LastWithLength(a) /\ LastNamed(b)) =>
                /\ Fields(container)[b].length_of = a
                /\ Fields(container)[a].length_member = b

\* a container where two members declare the same length name, which a third names
C4_Witness ==
    /\ Built
    /\ \E a \in Pos, a2 \in Pos, b \in Pos :
          /\ a < a2
          /\ FLength(a) = FName(b)
          /\ FLength(a2) = FName(b)
          /\ Fields(container)[b].length_of = a2
          /\ Fields(container)[a2].length_member = b

\* C5 as claimed: whenever L.length_of is A, A.length_member is L itself.
C5_AsClaimed ==
    Built =>
        \A l \in Pos :
            Fields(container)[l].length_of # 0 =>
                Fields(container)[Fields(container)[l].length_of].length_member = l

\* C5 amended: whenever L.length_of is A, A.length_member is the last member
\* of the container that carries L's name; it is L itself when L is that last
\* member (always so when the names in the container are distinct).
C5_MutualUpToName ==
    Built =>
        \A l \in Pos :
            LET a == Fields(container)[l].length_of
            IN  a # 0 =>
                   LET back == Fields(container)[a].length_member
                   IN  /\ back # 0
                       /\ FName(back) = FName(l)
                       /\ LastNamed(back)
                       /\ (LastNamed(l) => back = l)

\* a length member paired with its array, and a second member of the same name
C5_Witness ==
    /\ Built
    /\ \E l \in Pos, l2 \in Pos :
          /\ l # l2
          /\ FName(l) = FName(l2)
          /\ Fields(container)[l].length_of # 0
          /\ Fields(container)[Fields(container)[l].length_of].length_member = l

IsFunctionContainer == Built /\ IsFunctionPointerType(container)

\* the enabled arguments of the raw data that are named 'userdata'
UserdataArgs ==
    {i \in 1..Len(container.data.args) :
        /\ "upstream" \notin container.data.args[i].tags
        /\ container.data.args[i].name = "userdata"}

\* C10 as claimed: is_callback iff exactly one enabled argument is named 'userdata'.
C10_AsClaimed ==
    IsFunctionContainer => (is_callback(container) <=> Cardinality(UserdataArgs) = 1)

\* C10 amended: is_callback iff at least one enabled argument is named
\* 'userdata'; with two or more it is true as well.
C10_AtLeastOne ==
    IsFunctionContainer => (is_callback(container) <=> Cardinality(UserdataArgs) >= 1)

\* a function type with two arguments named 'userdata' and a dropped upstream one
C10_Witness ==
    /\ IsFunctionContainer
    /\ Cardinality(UserdataArgs) = 2
    /\ Len(container.data.args) = 3
    /\ is_callback(container)

-----------------------------------------------------------------------------
(* Conversion and signature: one member that varies in every attribute the *)
(* two properties read, followed by up to MaxPartners siblings that can    *)
(* pair with it                                                            *)

MaxPartners == 1

Annotations == {NoneV, "const*", "*", "const*const*"}

ConvTypes ==
    {"void", "char", "uint32_t", "texture format", "buffer usage", "origin 3D",
     "device", "error callback", "proc", "get proc address", "flags", "undeclared"}

ConvSubjects ==
    {[MD(n, t) EXCEPT !.annotation = a, !.length = l, !.optional = o] :
        n \in PairNames, t \in ConvTypes, a \in Annotations, l \in PairLengths,
        o \in BOOLEAN}

ConvPartners ==
    {[MD(n, t) EXCEPT !.annotation = "const*", !.length = l] :
        n \in {"count", "items"}, t \in {"void", "uint32_t"}, l \in {NoneV, "count"}}

ConvInputs ==
    {<<subject>> \o partners :
        subject \in ConvSubjects, partners \in SeqsUpTo(ConvPartners, MaxPartners)}

ConvStructureInit == StructureInit(ConvInputs)

ConvFunctionPointerInit == FunctionPointerInit(ConvInputs)

NextConv == ConvStructureInit \/ ConvFunctionPointerInit \/ ContainerLink

SpecConv == ContainerInit /\ [][NextConv]_vars

F == Fields(container)

FType(i) == Registry[F[i].data.type]

FAnnotation(i) == F[i].data.annotation

HasLength(i) == FLength(i) # NoneV /\ FLength(i) # ""

ArrayStrategies ==
    {"buffer_conversion", "enum_array_conversion", "struct_array_conversion",
     "object_array_conversion", "implicit_array_conversion"}

\* the rules of the claim, in its order: whether rule k applies to member i
RuleMatches(k, i) ==
    CASE k = 1 -> F[i].length_of # 0
      [] k = 2 -> FName(i) = "userdata"
      [] k = 3 -> FType(i).name = "char" /\ FAnnotation(i) = "const*"
      [] k = 4 -> FAnnotation(i) = "const*" /\ HasLength(i)
      [] k = 5 -> FAnnotation(i) = "const*" /\ ~HasLength(i)
      [] k = 6 -> FAnnotation(i) = "*"
      [] OTHER -> FAnnotation(i) = NoneV

CallbackShape(t) ==
    /\ t.cls \in FunctionClasses
    /\ \E j \in 1..Len(t.args) : t.args[j].data.name = "userdata"

\* the strategy rule k names for member i
RuleStrategy(k, i) ==
    LET t == FType(i)
        o == F[i].data.optional
    IN  CASE k = 1 ->
                IF Registry[F[F[i].length_of].data.type].name = "void"
                THEN "buffer_length_conversion" ELSE "array_length_conversion"
          [] k = 2 -> "userdata_conversion"
          [] k = 3 -> IF o THEN "optional_string_conversion" ELSE "string_conversion"
          [] k = 4 ->
                CASE t.name = "void"            -> "buffer_conversion"
                  [] t.category = "enum"        -> "enum_array_conversion"
                  [] t.category = "structure"   -> "struct_array_conversion"
                  [] t.category = "object"      -> "object_array_conversion"
                  [] OTHER                      -> "implicit_array_conversion"
          [] k = 5 ->
                IF t.category = "structure"
                THEN (IF o THEN "optional_struct_conversion" ELSE "struct_pointer_conversion")
                ELSE "implicit_conversion"
          [] k = 6 -> "implicit_conversion"
          [] OTHER ->
                CASE t.category = "enum"      -> "enum_conversion"
                  [] t.category = "bitmask"   -> "bitmask_conversion"
                  [] t.category = "structure" -> "struct_conversion"
                  [] t.category = "object"    ->
                        IF o THEN "optional_object_conversion" ELSE "object_conversion"
                  [] CallbackShape(t)         -> "Conversion(" \o camel_case(Lower(t.name)) \o ")"
                  [] OTHER                    -> "implicit_conversion"

Rules == 1..7

\* C1: for every linked member, conversion is the strategy of the first of the
\* seven rules that matches; no later rule overrides an earlier match.
C1_FirstMatchingRule ==
    Linked =>
        \A i \in Pos, k \in Rules :
            (RuleMatches(k, i) /\ \A j \in 1..(k - 1) : ~RuleMatches(j, i)) =>
                conversion(Registry, F, i) = RuleStrategy(k, i)

\* a member that several rules match at once: it is the length of a raw buffer,
\* is itself a const pointer with a length, and the first rule decides
C1_Witness ==
    /\ Linked
    /\ \E i \in Pos :
          /\ RuleMatches(1, i) /\ RuleMatches(4, i)
          /\ conversion(Registry, F, i) = "buffer_length_conversion"
    /\ \E i \in Pos : ~RuleMatches(1, i) /\ RuleMatches(4, i)

PairedArray(i) == FAnnotation(i) = "const*" /\ HasLength(i)

\* C2 as claimed: every optional member paired as an array resolves to an array
\* strategy, for every element type.
C2_AsClaimed ==
    Linked =>
        \A i \in Pos :
            (PairedArray(i) /\ F[i].data.optional) =>
                conversion(Registry, F, i) \in ArrayStrategies

\* C2 amended: an optional member paired as an array resolves to an array
\* strategy, never to optional-struct or optional-object, unless an earlier rule
\* takes it: it is itself the length of a sibling (a length strategy), it is
\* named 'userdata' (userdata), or its element type is 'char' (optional-string).
C2_ArrayBeforeOptional ==
    Linked =>
        \A i \in Pos :
            (PairedArray(i) /\ F[i].data.optional) =>
                LET c == conversion(Registry, F, i)
                IN  IF F[i].length_of # 0
                    THEN c \in {"buffer_length_conversion", "array_length_conversion"}
                    ELSE IF FName(i) = "userdata" THEN c = "userdata_conversion"
                    ELSE IF FType(i).name = "char" THEN c = "optional_string_conversion"
                    ELSE c \in ArrayStrategies

\* an optional array of structures, which the optional-struct rule would claim
C2_Witness ==
    /\ Linked
    /\ \E i \in Pos :
          /\ PairedArray(i) /\ F[i].data.optional
          /\ FType(i).category = "structure"
          /\ conversion(Registry, F, i) = "struct_array_conversion"

\* the signature is the native one: none of the three idiomatic branches applies
IsFallback(i) ==
    /\ ~(FType(i).name = "char" /\ FAnnotation(i) = "const*")
    /\ ~PairedArray(i)
    /\ FAnnotation(i) # NoneV
    /\ ~(FAnnotation(i) = "const*" /\ FType(i).category = "structure")

\* C3 as claimed: every optional member's swift_type ends with '?', the fallback
\* native signature included, and every function-pointer-typed member's
\* signature carries '@escaping'.
C3_AsClaimed ==
    Linked =>
        \A i \in Pos :
            /\ F[i].data.optional => EndsWith(swift_type(Registry, F, i), "?")
            /\ FType(i).category = "function pointer" =>
                  Contains(swift_type(Registry, F, i), "@escaping")

\* C3 amended: when the signature is one of the idiomatic ones (String, array,
\* the type's own name), an optional member's swift_type ends with '?' and a
\* function-pointer-typed member's starts with '@escaping'; the fallback
\* native-ABI signature is returned as it is, with neither mark.
C3_MarksUnlessFallback ==
    Linked =>
        \A i \in Pos :
            LET sig == swift_type(Registry, F, i)
            IN  IF IsFallback(i)
                THEN /\ sig = c_type(Registry, F, i)
                     /\ ~EndsWith(sig, "?")
                     /\ ~Contains(sig, "@escaping")
                ELSE /\ F[i].data.optional <=> EndsWith(sig, "?")
                     /\ FType(i).category = "function pointer" <=>
                           StartsWith(sig, "@escaping ")

\* an optional function-pointer member by value, and an optional mutable pointer
C3_Witness ==
    /\ Linked
    /\ \E i \in Pos :
          /\ F[i].data.optional /\ ~IsFallback(i)
          /\ FType(i).category = "function pointer"
          /\ swift_type(Registry, F, i) = "@escaping ErrorCallback?"

-----------------------------------------------------------------------------
(* Default values: one member that varies in type, literal default,        *)
(* annotation, length and optionality, followed by up to MaxPartners       *)
(* siblings: a length field with its own default, an array, a plain member *)

\* the literals paired with each type are those its get_swift_value accepts
\* (a str for an enum or a structure, anything for a native type)
TypedDefaults ==
    ({"uint32_t"} \X {NoLit, IntLit(0), IntLit(1), BoolLit(FALSE), StrLit("0"),
                      StrLit("WGPU_WHOLE_SIZE")})
    \cup ({"bool"} \X {BoolLit(FALSE), BoolLit(TRUE), StrLit("false")})
    \cup ({"float"} \X {StrLit("1.0f"), StrLit("NAN"), StrLit("f")})
    \cup ({"texture format"} \X {NoLit, StrLit("r8 unorm")})
    \cup ({"texture dimension"} \X {StrLit("2D")})
    \cup ({"origin 3D"} \X {NoLit, StrLit("{1, 2.0f}")})
    \cup ({"extent 3D", "view", "device"} \X {NoLit})

DefaultSubjects ==
    {[MD(n, td[1]) EXCEPT !.default = td[2], !.annotation = a, !.length = l,
                          !.optional = o] :
        n \in {"count", "items"}, td \in TypedDefaults, a \in {NoneV, "const*"},
        l \in {NoneV, "count"}, o \in BOOLEAN}

DefaultPartners ==
    {[MD("count", "uint32_t") EXCEPT !.default = d] :
        d \in {NoLit, IntLit(0), StrLit("0"), IntLit(1), BoolLit(FALSE)}}
    \cup {[MD("items", "uint32_t") EXCEPT !.annotation = "const*", !.length = "count"],
          MD("size", "uint32_t")}

DefaultInputs ==
    {<<subject>> \o partners :
        subject \in DefaultSubjects, partners \in SeqsUpTo(DefaultPartners, MaxPartners)}

DefaultStructureInit == StructureInit(DefaultInputs)

DefaultFunctionPointerInit == FunctionPointerInit(DefaultInputs)

NextDefault == DefaultStructureInit \/ DefaultFunctionPointerInit \/ ContainerLink

SpecDefault == ContainerInit /\ [][NextDefault]_vars

LinkedStructure == Linked /\ IsStructureType(container)

Derived(i) == default_swift_value(Registry, F, i)

\* C6 as claimed: has_default_swift_initializer iff every member that is not an
\* array has a derived default; a non-array member without one makes it false.
C6_AsClaimed ==
    LinkedStructure =>
        /\ has_default_swift_initializer(Registry, container)
              <=> \A i \in Pos : ~PairedArray(i) => Derived(i) # NoneV
        /\ \A i \in Pos :
              (~PairedArray(i) /\ Derived(i) = NoneV) =>
                  ~has_default_swift_initializer(Registry, container)

\* C6 amended: has_default_swift_initializer iff every member that is not the
\* length field of a sibling (length_of unset: the swift_members, arrays
\* included) has a derived default that is neither absent nor the empty string;
\* the defaults of the length fields are not looked at.
C6_OverSwiftMembers ==
    LinkedStructure =>
        /\ has_default_swift_initializer(Registry, container)
              <=> \A i \in Pos :
                     F[i].length_of = 0 => (Derived(i) # NoneV /\ Derived(i) # "")
        /\ \A i \in Pos :
              (F[i].length_of = 0 /\ Derived(i) = NoneV) =>
                  ~has_default_swift_initializer(Registry, container)

\* a structure with a default initializer although its length field has no
\* derived default, and whose array member is what was inspected
C6_Witness ==
    /\ LinkedStructure
    /\ has_default_swift_initializer(Registry, container)
    /\ \E i \in Pos, j \in Pos :
          /\ F[i].length_of = j
          /\ Derived(i) = NoneV
          /\ PairedArray(j)

LengthDefaultsToZero(i) ==
    /\ F[i].length_member # 0
    /\ F[F[i].length_member].data.default \in {IntLit(0), BoolLit(FALSE), StrLit("0")}

\* C7 as claimed: a non-optional member that carries an explicit literal default,
\* and whose paired length field does not default to zero, has a derived default:
\* its type's get_swift_value of the literal, whatever the literal (0 and false
\* included); optional members derive 'nil' and arrays of a zero length '[]'.
C7_AsClaimed ==
    Linked =>
        \A i \in Pos :
            /\ F[i].data.optional => Derived(i) = "nil"
            /\ (~F[i].data.optional /\ LengthDefaultsToZero(i)) => Derived(i) = "[]"
            /\ (/\ ~F[i].data.optional
                /\ ~LengthDefaultsToZero(i)
                /\ F[i].data.default # NoLit) =>
                  /\ Derived(i) # NoneV
                  /\ Derived(i) = get_swift_value(Registry, F[i].type, F[i].data.default)

-----------------------------------------------------------------------------
(* Model.__init__: the build loop over the schema, then the link loop over *)
(* the registry                                                            *)

EntryName(k) == data[k][1]

EntryData(k) == data[k][2]

IsPrivate(name) == StartsWith(name, "_")

ContainerIdle == container = NoContainer /\ cpc = "idle"

\* for name, type_data in data.items(): if name.startswith('_'): continue
BuildSkipPrivate ==
    /\ pc = "build" /\ idx <= Len(data)
    /\ IsPrivate(EntryName(idx))
    /\ idx' = idx + 1
    /\ UNCHANGED <<container, cpc, data, enabled_tags, types, order, pc>>

\* if not _is_enabled(type_data, enabled_tags): continue
BuildSkipDisabled ==
    /\ pc = "build" /\ idx <= Len(data)
    /\ ~IsPrivate(EntryName(idx))
    /\ ~_is_enabled(EntryData(idx), enabled_tags)
    /\ idx' = idx + 1
    /\ UNCHANGED <<container, cpc, data, enabled_tags, types, order, pc>>

\* type_ = category_types.get(category); if type_: ... (an unknown category)
BuildSkipUnknown ==
    /\ pc = "build" /\ idx <= Len(data)
    /\ ~IsPrivate(EntryName(idx))
    /\ _is_enabled(EntryData(idx), enabled_tags)
    /\ EntryData(idx).category \notin KnownCategories
    /\ idx' = idx + 1
    /\ UNCHANGED <<container, cpc, data, enabled_tags, types, order, pc>>

\* self.types[name] = type_(name, type_data)
BuildAdd ==
    /\ pc = "build" /\ idx <= Len(data)
    /\ ~IsPrivate(EntryName(idx))
    /\ _is_enabled(EntryData(idx), enabled_tags)
    /\ EntryData(idx).category \in KnownCategories
    /\ types' = (EntryName(idx) :> Construct(EntryName(idx), EntryData(idx), enabled_tags))
                @@ types
    /\ order' = IF EntryName(idx) \in DOMAIN types THEN order
                ELSE Append(order, EntryName(idx))
    /\ idx' = idx + 1
    /\ UNCHANGED <<container, cpc, data, enabled_tags, pc>>

\* the first loop is over: for type_ in self.types.values()
BuildDone ==
    /\ pc = "build" /\ idx > Len(data)
    /\ pc' = "link"
    /\ idx' = 1
    /\ UNCHANGED <<container, cpc, data, enabled_tags, types, order>>

\* type_.link(self.types) returns
LinkOk ==
    /\ pc = "link" /\ idx <= Len(order)
    /\ ~LinkFails(types, types[order[idx]])
    /\ types' = [types EXCEPT ![order[idx]] = Link(types, @)]
    /\ idx' = idx + 1
    /\ UNCHANGED <<container, cpc, data, enabled_tags, order, pc>>

\* type_.link(self.types) raises KeyError: __init__ is left, no Model exists
LinkRaise ==
    /\ pc = "link" /\ idx <= Len(order)
    /\ LinkFails(types, types[order[idx]])
    /\ pc' = "failed"
    /\ UNCHANGED <<container, cpc, data, enabled_tags, types, order, idx>>

\* the second loop is over: __init__ returns
LinkDone ==
    /\ pc = "link" /\ idx > Len(order)
    /\ pc' = "done"
    /\ UNCHANGED <<container, cpc, data, enabled_tags, types, order, idx>>

NextBuild ==
    \/ BuildSkipPrivate
    \/ BuildSkipDisabled
    \/ BuildSkipUnknown
    \/ BuildAdd
    \/ BuildDone
    \/ LinkOk
    \/ LinkRaise
    \/ LinkDone

-----------------------------------------------------------------------------
(* The schemas of the build: one entry that varies in name, tags, category *)
(* and in the references it stores, before or after up to MaxTargets       *)
(* entries that those references may name                                  *)

MaxTargets == 2

BuildRefs == {"b", "_b", "zz", "void"}

TagSets == {{}, {"dawn"}, {"dawn", "native"}}

EnabledTagSets == {NoTags, TagList({}), TagList({"dawn"}), TagList({"dawn", "native"})}

Method(tags, arg, returns) ==
    [TD("method") EXCEPT !.name = "get", !.tags = tags, !.args = <<MD("x", arg)>>,
                         !.returns = returns]

SubjectShapes ==
    {TD("native"), TD("constant"),
     [TD("enum") EXCEPT !.values =
         <<EV("1D", 0), [EV("2D", 1) EXCEPT !.tags = {"native"}]>>]}
    \cup {[TD("structure") EXCEPT !.members = <<MD("m", r)>>] : r \in BuildRefs}
    \cup {[TD("structure") EXCEPT !.members =
              <<MD("m", r), [MD("u", "zz") EXCEPT !.tags = {"upstream"}]>>] :
            r \in BuildRefs}
    \cup {[TD("function pointer") EXCEPT !.args = <<MD("x", r)>>, !.returns = ret] :
            r \in BuildRefs, ret \in {NoneV, "void"}}
    \cup {[TD("function") EXCEPT !.returns = r] : r \in BuildRefs}
    \cup {[TD("object") EXCEPT !.methods = <<Method(mt, r, "void")>>] :
            r \in BuildRefs, mt \in {{}, {"native"}}}
    \cup {[TD("typedef") EXCEPT !.type = r] : r \in BuildRefs}

Subjects ==
    {<<n, [shape EXCEPT !.tags = t]>> :
        n \in {"a", "_a"}, shape \in SubjectShapes, t \in TagSets}

Targets ==
    {<<"b", [shape EXCEPT !.tags = t]>> :
        shape \in {TD("native"), TD("constant"), [TD("typedef") EXCEPT !.type = "zz"]},
        t \in {{}, {"dawn"}}}
    \cup {<<"_b", TD("native")>>, <<"void", TD("native")>>}

\* the keys of a dict are distinct
DistinctNames(q) == \A i \in 1..Len(q), j \in 1..Len(q) : q[i][1] = q[j][1] => i = j

TargetSeqs == {q \in SeqsUpTo(Targets, MaxTargets) : DistinctNames(q)}

Schemas ==
    {<<subject>> \o q : subject \in Subjects, q \in TargetSeqs}
    \cup {q \o <<subject>> : subject \in Subjects, q \in TargetSeqs}

BuildInit ==
    /\ ContainerIdle
    /\ data \in Schemas
    /\ enabled_tags \in EnabledTagSets
    /\ types = [n \in {} |-> NoneV]
    /\ order = <<>>
    /\ pc = "build"
    /\ idx = 1

SpecBuild == BuildInit /\ [][NextBuild]_vars

-----------------------------------------------------------------------------
(* What the schema says, read off the raw data *)

TagsAllow(tags) == ~enabled_tags.given \/ tags = {} \/ tags \subseteq enabled_tags.tags

Entries == 1..Len(data)

Kept(k) ==
    /\ CharAt(EntryName(k), 1) # "_"
    /\ TagsAllow(EntryData(k).tags)
    /\ EntryData(k).category \in
          {"native", "enum", "bitmask", "structure", "function pointer", "function",
           "object", "typedef"}

KeptNames == {EntryName(k) : k \in {j \in Entries : Kept(j)}}

ArgRefs(ds) == {ds[i].type : i \in {j \in 1..Len(ds) : "upstream" \notin ds[j].tags}}

ReturnRefs(d) == IF d.returns \in {NoneV, "", "void"} THEN {} ELSE {d.returns}

\* the type references the node of a kept entry stores
StoredRefs(d) ==
    CASE d.category = "structure" -> ArgRefs(d.members)
      [] d.category \in {"function pointer", "function"} -> ArgRefs(d.args) \cup ReturnRefs(d)
      [] d.category = "object" ->
            UNION {ArgRefs(d.methods[i].args) \cup ReturnRefs(d.methods[i]) :
                     i \in {j \in 1..Len(d.methods) : TagsAllow(d.methods[j].tags)}}
      [] d.category = "typedef" -> {d.type}
      [] OTHER -> {}

Dangling(k) == Kept(k) /\ ~(StoredRefs(EntryData(k)) \subseteq KeptNames)

\* the entry a registry key came from
EntryOf(name) == CHOOSE k \in Entries : EntryName(k) = name

MembersResolved(ms) ==
    \A i \in 1..Len(ms) : ms[i].type # NoneV /\ ms[i].type \in DOMAIN types

NodeResolved(t) ==
    /\ MembersResolved(t.members)
    /\ MembersResolved(t.args)
    /\ \A i \in 1..Len(t.methods) : MembersResolved(t.methods[i].args)
    /\ t.cls = "TypedefType" => (t.type # NoneV /\ t.type \in DOMAIN types)

\* C8: once the build loop is over, the registry holds a node for an entry iff
\* the entry is not private, is enabled by its tags (no enabled-tag set, no
\* declared tag, or every declared tag enabled) and has one of the eight known
\* categories; an unknown category is skipped without failing; each key is the
\* schema name of its node; the link loop adds and removes nothing.
C8_RegistryIsKeptEntries ==
    /\ pc \in {"link", "done", "failed"} =>
          /\ DOMAIN types = KeptNames
          /\ \A n \in DOMAIN types :
                types[n].name = n /\ types[n].category = EntryData(EntryOf(n)).category
          /\ {order[i] : i \in 1..Len(order)} = KeptNames
          /\ Len(order) = Cardinality(KeptNames)
    /\ pc = "build" =>
          DOMAIN types = {EntryName(k) : k \in {j \in Entries : j < idx /\ Kept(j)}}

\* a finished build that skipped an entry of unknown category and one refused by
\* its tags, and kept an entry both of whose tags are enabled
C8_Witness ==
    /\ pc = "done"
    /\ \E k \in Entries :
          /\ ~Kept(k)
          /\ EntryData(k).category = "constant"
          /\ TagsAllow(EntryData(k).tags)
    /\ \E k \in Entries : Kept(k) /\ EntryData(k).tags = {"dawn", "native"}
    /\ enabled_tags.given

\* C9: the build fails exactly when a kept node stores a reference to a name
\* that is not a registry key, and it fails at the first such node in registry
\* order; when no reference dangles the build finishes and every member,
\* argument and typedef is resolved to a registry key.
C9_DanglingReferenceFails ==
    /\ pc = "done" =>
          /\ \A k \in Entries : ~Dangling(k)
          /\ \A n \in DOMAIN types : NodeResolved(types[n])
    /\ pc = "failed" => Dangling(EntryOf(order[idx]))
    /\ pc \in {"link", "failed"} =>
          \A j \in 1..(idx - 1) : ~Dangling(EntryOf(order[j])) /\ NodeResolved(types[order[j]])
    /\ pc \in {"build", "link"} => ENABLED NextBuild

\* a build that failed on a reference to an entry the schema declares but the
\* registry lacks
C9_Witness ==
    /\ pc = "failed"
    /\ \E k \in Entries :
          /\ ~Kept(k)
          /\ EntryName(k) \in StoredRefs(EntryData(EntryOf(order[idx])))

\* a build that finished with a kept entry whose stored references all resolve
C9_WitnessDone ==
    /\ pc = "done"
    /\ \E k \in Entries : Kept(k) /\ StoredRefs(EntryData(k)) # {}

=============================================================================
